---------------------------- MODULE Spec2Model ----------------------------
(***************************************************************************)
(* A model of the Julia set WebGL viewer (src/webgl_viewer/julia-viewer.js).*)
(*                                                                         *)
(* Three state machines share this module:                                 *)
(*   Spec        the JuliaSetViewer object: construction, init() and every *)
(*               DOM event handler registered by setupEventListeners();    *)
(*   WheelSpec   the same object driven by wheel events only;              *)
(*   ShaderSpec  one invocation of the fragment shader's main(), stepped   *)
(*               through its iteration loop, under uniforms the viewer can *)
(*               upload (ShaderAnySpec: under any iteration count).        *)
(* The controls panel (setupUIEventListeners, toggleControls,              *)
(* hideControls) touches no field the other handlers read and is left out. *)
(*                                                                         *)
(* Numbers.  JavaScript numbers are doubles and GLSL numbers are mediump   *)
(* floats; both are modelled as fixed-point integers.  juliaReal and       *)
(* juliaImag are held in units of 1/CScale (they are parsed, stored and    *)
(* uploaded, never computed with on the host); zoom, the offsets and every *)
(* shader value are held in units of 1/Scale.  maxIterations, pixel sizes  *)
(* and mouse coordinates are plain integers.  Rounding to the grid stands  *)
(* for floating-point rounding.                                            *)
(***************************************************************************)
EXTENDS Integers, Sequences, FiniteSets, TLC

\* ------------------------------------------------------------- numbers

\* Fixed-point unit of zoom, offsets and shader floats: 1.0 is Scale.
Scale == 1000

\* Fixed-point unit of the complex parameter c: 1.0 is CScale.
CScale == 100000

\* The non-finite results of JavaScript arithmetic (NaN, +-Infinity), merged
\* into one value outside the range of every finite value of the model.
NaN == 0 - 2000000000

\* n / d rounded to the nearest integer (half up), d > 0.
RoundDiv(n, d) == (n + d \div 2) \div d

\* JavaScript a / b on fixed-point operands in units of 1/Scale; a division
\* by zero gives a non-finite number, which every later operation keeps.
Div(a, b) ==
    IF a = NaN \/ b = NaN \/ b = 0 THEN NaN
    ELSE IF b < 0 THEN RoundDiv((0 - a) * Scale, 0 - b)
    ELSE RoundDiv(a * Scale, b)

\* The quotient n / d of two integers (pixels, counts) as a fixed-point number.
DivInt(n, d) ==
    IF d = 0 THEN NaN
    ELSE IF d < 0 THEN RoundDiv((0 - n) * Scale, 0 - d)
    ELSE RoundDiv(n * Scale, d)

\* JavaScript a * b on fixed-point operands in units of 1/Scale.
Mul(a, b) == IF a = NaN \/ b = NaN THEN NaN ELSE RoundDiv(a * b, Scale)

Add(a, b) == IF a = NaN \/ b = NaN THEN NaN ELSE a + b

Sub(a, b) == IF a = NaN \/ b = NaN THEN NaN ELSE a - b

\* An integer (pixels, a literal such as 2.0) as a fixed-point number.
Fix(n) == n * Scale

\* ------------------------------------------------------------- parsing

\* A string is a sequence of one-character strings: <<"-", "0", ".", "4">>.
Digits == {"0", "1", "2", "3", "4", "5", "6", "7", "8", "9"}

DigitValue(ch) ==
    CASE ch = "0" -> 0 [] ch = "1" -> 1 [] ch = "2" -> 2 [] ch = "3" -> 3
      [] ch = "4" -> 4 [] ch = "5" -> 5 [] ch = "6" -> 6 [] ch = "7" -> 7
      [] ch = "8" -> 8 [] ch = "9" -> 9

\* The length of the longest run of digits of s that starts at position i.
RECURSIVE DigitRun(_, _)
DigitRun(s, i) ==
    IF i <= Len(s) /\ s[i] \in Digits THEN 1 + DigitRun(s, i + 1) ELSE 0

\* The value of the n digits of s from position i, read as an integer.
RECURSIVE DigitsValue(_, _, _)
DigitsValue(s, i, n) ==
    IF n = 0 THEN 0
    ELSE 10 * DigitsValue(s, i, n - 1) + DigitValue(s[i + n - 1])

\* The value of the n digits of s from position i read as a fraction, in
\* units of 1/unit (unit a power of ten); digits beyond the unit are dropped.
RECURSIVE FractionValue(_, _, _, _)
FractionValue(s, i, n, unit) ==
    IF n = 0 \/ unit = 1 THEN 0
    ELSE DigitValue(s[i]) * (unit \div 10)
            + FractionValue(s, i + 1, n - 1, unit \div 10)

HasSign(s) == Len(s) >= 1 /\ s[1] \in {"-", "+"}

SignOf(s) == IF Len(s) >= 1 /\ s[1] = "-" THEN 0 - 1 ELSE 1

\* parseInt(s): an optional sign and the longest run of digits after it; what
\* follows (a decimal point, a fraction) is ignored; no digit at all is NaN.
\* The result is a plain integer.
parseInt(s) ==
    LET start == IF HasSign(s) THEN 2 ELSE 1
        n == DigitRun(s, start)
    IN  IF n = 0 THEN NaN ELSE SignOf(s) * DigitsValue(s, start, n)

\* parseFloat(s) in units of 1/unit: an optional sign, digits, and an optional
\* decimal point followed by digits; no digit at all is NaN.  (Exponents are
\* not modelled.)
parseFloat(s, unit) ==
    LET start == IF HasSign(s) THEN 2 ELSE 1
        n == DigitRun(s, start)
        dot == start + n
        hasDot == dot <= Len(s) /\ s[dot] = "."
        m == IF hasDot THEN DigitRun(s, dot + 1) ELSE 0
    IN  IF n = 0 /\ m = 0 THEN NaN
        ELSE SignOf(s) * (DigitsValue(s, start, n) * unit
                            + FractionValue(s, dot + 1, m, unit))


\* toFixed(digits) of a fixed-point number in units of 1/unit: the number
\* rounded to that many decimals, in units of 1/10^digits.
toFixed(x, unit, step) == IF x = NaN THEN NaN ELSE RoundDiv(x * step, unit)

\* ------------------------------------------------------------ constants

\* The wheel handler's zoom factors and clamp limits, in units of 1/Scale.
ZoomOutFactor == 900
ZoomInFactor == 1100
ZoomMin == 100
ZoomMax == 10000

\* The constant bound of the shader's loop.
LoopCeiling == 500

\* Escape radius squared, 4.0, in units of 1/Scale.
EscapeRadiusSq == 4000

\* ------------------------------------------------------- the environment

\* index.html is not part of the sources: the sliders' ranges and the preset
\* buttons' data attributes are taken from the specification's data model
\* (c in [-2, 2], zoom in [0.1, 10.0], maxIterations in [10, 500]) and its
\* preset scenario.  A range input only ever reports a value of its range.
RealSliderValues ==
    { <<"-", "2">>, <<"-", "0", ".", "4">>, <<"0", ".", "2", "8", "5">> }

ImagSliderValues ==
    { <<"0", ".", "6">>, <<"-", "0", ".", "0", "1">>, <<"2">> }

ZoomSliderValues == { <<"0", ".", "1">>, <<"2", ".", "5">>, <<"1", "0">> }

IterSliderValues == { <<"1", "0">>, <<"2", "5", "0">>, <<"5", "0", "0">> }

\* The iteration slider's range.
IterMin == 10
IterMax == 500

\* Preset buttons: [real, imag] are the data-real and data-imag attributes.
Presets ==
    { [real |-> <<"-", "0", ".", "4">>, imag |-> <<"0", ".", "6">>],
      [real |-> <<"0", ".", "2", "8", "5">>, imag |-> <<"0", ".", "0", "1">>] }

\* window.innerWidth x window.innerHeight, in CSS pixels.
WindowSizes == { <<800, 600>>, <<1600, 1200>> }

\* window.devicePixelRatio; 0 stands for a missing (falsy) value.
DevicePixelRatios == { 0, 1, 2 }

\* clientX, clientY of mouse events.
MousePoints == { <<0, 0>>, <<400, 300>>, <<800, 150>> }

\* deltaY of wheel events.
WheelDeltas == { 0 - 100, 0, 100 }

\* The number of events delivered after init() that Spec explores.
MaxEvents == 4

\* ---------------------------------------------------------------- state

VARIABLES
    viewer,     \* the JuliaSetViewer object with its canvas, its GL context
                \* and the DOM elements its handlers write
    win,        \* the window: innerWidth, innerHeight, devicePixelRatio
    phase,      \* "constructed" (before init()), "ready", "failed"
    lastEvent,  \* the event delivered last: its kind, and the button of a
                \* preset click
    pressed,    \* a mousedown was delivered and no mouseup since
    events,     \* the number of events delivered after init()
    shader      \* one invocation of the fragment shader's main(): its
                \* position (pc), its locals, and how its loop ended (exit)

vars == <<viewer, win, phase, lastEvent, pressed, events, shader>>

\* What a shader invocation leaves alone.
viewerVars == <<viewer, win, phase, lastEvent, pressed, events>>

\* The uniforms of a program before any upload.
ZeroUniforms ==
    [u_julia_c |-> <<0, 0>>, u_zoom |-> 0, u_offset |-> <<0, 0>>,
     u_max_iterations |-> 0, u_resolution |-> <<0, 0>>]

\* The fields the constructor sets, the canvas element as the document holds
\* it, and the DOM state the handlers write.
constructor ==
    [juliaReal |-> 0 - 70000, juliaImag |-> 27015,
     zoom |-> 1000, offsetX |-> 0, offsetY |-> 0, maxIterations |-> 100,
     isDragging |-> FALSE, lastMouseX |-> 0, lastMouseY |-> 0,
     gl |-> FALSE, program |-> "null",
     canvasWidth |-> 300, canvasHeight |-> 150,
     styleWidth |-> 0, styleHeight |-> 0,
     viewport |-> <<0, 0>>, uniforms |-> ZeroUniforms,
     frame |-> [drawn |-> FALSE, uniforms |-> ZeroUniforms, viewport |-> <<0, 0>>],
     draws |-> <<>>,
     listeners |-> FALSE,
     loadingShown |-> TRUE, loadingText |-> "Loading",
     zoomSlider |-> 1000,
     realSlider |-> 0 - 70000, imagSlider |-> 27015,
     realValue |-> 0 - 700, imagValue |-> 270, zoomValue |-> 10,
     iterValue |-> 100]

\* View State: the parameters a frame is drawn from.
ViewState(s) ==
    [u_julia_c |-> <<s.juliaReal, s.juliaImag>>,
     u_zoom |-> s.zoom,
     u_offset |-> <<s.offsetX, s.offsetY>>,
     u_max_iterations |-> s.maxIterations,
     u_resolution |-> <<s.canvasWidth, s.canvasHeight>>]

\* -------------------------------------------------------------- methods

\* A render() that forgets to upload u_zoom.
renderStaleZoom(s) ==
    IF ~s.gl THEN s
    ELSE LET linked == s.program = "linked"
             vp == <<s.canvasWidth, s.canvasHeight>>
             u == IF linked THEN [ViewState(s) EXCEPT !.u_zoom = s.uniforms.u_zoom]
                  ELSE s.uniforms
         IN  [s EXCEPT !.viewport = vp,
                       !.uniforms = u,
                       !.frame = [drawn |-> linked,
                                  uniforms |-> IF linked THEN u ELSE ZeroUniforms,
                                  viewport |-> IF linked THEN vp ELSE <<0, 0>>],
                       !.draws = Append(@, u)]

\* render(): with no context the first gl call throws and nothing is drawn.
\* Uniform uploads reach only a linked program, and so does the draw; the
\* draw call itself is issued either way.  The frame that clear() and
\* drawArrays() leave is described by what determines its pixels: the
\* uniforms and the viewport of the draw.
render(s) ==
    IF ~s.gl THEN s
    ELSE LET linked == s.program = "linked"
             vp == <<s.canvasWidth, s.canvasHeight>>
             u == IF linked THEN ViewState(s) ELSE s.uniforms
         IN  [s EXCEPT !.viewport = vp,
                       !.uniforms = u,
                       !.frame = [drawn |-> linked,
                                  uniforms |-> IF linked THEN u ELSE ZeroUniforms,
                                  viewport |-> IF linked THEN vp ELSE <<0, 0>>],
                       !.draws = Append(@, u)]

\* A resizeCanvas() that ignores the device pixel ratio.
resizeCanvasNoRatio(s, w) ==
    LET sized == [s EXCEPT !.styleWidth = w.innerWidth,
                           !.styleHeight = w.innerHeight,
                           !.canvasWidth = w.innerWidth,
                           !.canvasHeight = w.innerHeight]
    IN  IF sized.gl
        THEN render([sized EXCEPT !.viewport = <<sized.canvasWidth, sized.canvasHeight>>])
        ELSE sized

\* resizeCanvas(): w is the window.
resizeCanvas(s, w) ==
    LET devicePixelRatio == IF w.devicePixelRatio = 0 THEN 1 ELSE w.devicePixelRatio
        sized == [s EXCEPT !.styleWidth = w.innerWidth,
                           !.styleHeight = w.innerHeight,
                           !.canvasWidth = w.innerWidth * devicePixelRatio,
                           !.canvasHeight = w.innerHeight * devicePixelRatio]
    IN  IF sized.gl
        THEN render([sized EXCEPT !.viewport = <<sized.canvasWidth, sized.canvasHeight>>])
        ELSE sized

\* showError(message).
showError(s, message) ==
    [s EXCEPT !.loadingText = message, !.loadingShown = TRUE]

\* setupEventListeners(): every handler below is registered.
setupEventListeners(s) == [s EXCEPT !.listeners = TRUE]

\* An init() that registers the listeners before it creates the program.
initListenersFirst(s, w, gpu) ==
    LET s1 == resizeCanvas(s, w)
        s2 == setupEventListeners(
                [s1 EXCEPT !.gl = TRUE,
                           !.viewport = <<s1.canvasWidth, s1.canvasHeight>>])
        s3 == [s2 EXCEPT !.program = "unlinked"]
        s4 == [s3 EXCEPT !.program = "linked"]
        s6 == [s4 EXCEPT !.loadingShown = FALSE]
    IN  IF ~gpu.context THEN showError(s1, "WebGL not supported")
        ELSE IF ~gpu.compiles THEN showError(s2, "An error occurred compiling the shaders")
        ELSE IF ~gpu.links THEN showError(s3, "Unable to initialize shader program")
        ELSE render(s6)

\* init(): gpu says what the platform grants: a context, shaders that
\* compile, a program that links.  A throw at any step skips the rest and
\* shows the error.
init(s, w, gpu) ==
    LET s1 == resizeCanvas(s, w)
        s2 == [s1 EXCEPT !.gl = TRUE,
                         !.viewport = <<s1.canvasWidth, s1.canvasHeight>>]
        s3 == [s2 EXCEPT !.program = "unlinked"]
        s4 == [s3 EXCEPT !.program = "linked"]
        s5 == setupEventListeners(s4)
        s6 == [s5 EXCEPT !.loadingShown = FALSE]
    IN  IF ~gpu.context THEN showError(s1, "WebGL not supported")
        ELSE IF ~gpu.compiles THEN showError(s2, "An error occurred compiling the shaders")
        ELSE IF ~gpu.links THEN showError(s3, "Unable to initialize shader program")
        ELSE render(s6)

\* Math.min and Math.max: a NaN operand gives NaN.
mathMin(a, b) == IF a = NaN \/ b = NaN THEN NaN ELSE IF a < b THEN a ELSE b

mathMax(a, b) == IF a = NaN \/ b = NaN THEN NaN ELSE IF a > b THEN a ELSE b

\* ------------------------------------------------------------- handlers

\* realSlider 'input': value is e.target.value.
realInput(s, value) ==
    LET r == parseFloat(value, CScale)
    IN  render([s EXCEPT !.juliaReal = r,
                         !.realSlider = r,
                         !.realValue = toFixed(r, CScale, 1000)])

\* imagSlider 'input'.
imagInput(s, value) ==
    LET i == parseFloat(value, CScale)
    IN  render([s EXCEPT !.juliaImag = i,
                         !.imagSlider = i,
                         !.imagValue = toFixed(i, CScale, 1000)])

\* A zoom handler that parses with parseInt.
zoomInputParseInt(s, value) ==
    LET z == Fix(parseInt(value))
    IN  render([s EXCEPT !.zoom = z,
                         !.zoomSlider = z,
                         !.zoomValue = toFixed(z, Scale, 10)])

\* zoomSlider 'input'.
zoomInput(s, value) ==
    LET z == parseFloat(value, Scale)
    IN  render([s EXCEPT !.zoom = z,
                         !.zoomSlider = z,
                         !.zoomValue = toFixed(z, Scale, 10)])

\* iterSlider 'input'.
iterInput(s, value) ==
    LET n == parseInt(value)
    IN  render([s EXCEPT !.maxIterations = n, !.iterValue = n])

\* A preset handler that reads data-real for both parts.
presetClickRealTwice(s, button) ==
    LET r == parseFloat(button.real, CScale)
        i == parseFloat(button.real, CScale)
    IN  render([s EXCEPT !.juliaReal = r, !.juliaImag = i,
                         !.realSlider = r, !.imagSlider = i,
                         !.realValue = toFixed(r, CScale, 1000),
                         !.imagValue = toFixed(i, CScale, 1000)])

\* A preset button's 'click'.
presetClick(s, button) ==
    LET r == parseFloat(button.real, CScale)
        i == parseFloat(button.imag, CScale)
    IN  render([s EXCEPT !.juliaReal = r, !.juliaImag = i,
                         !.realSlider = r, !.imagSlider = i,
                         !.realValue = toFixed(r, CScale, 1000),
                         !.imagValue = toFixed(i, CScale, 1000)])

\* canvas 'mousedown'.
mousedown(s, e) ==
    [s EXCEPT !.isDragging = TRUE, !.lastMouseX = e[1], !.lastMouseY = e[2]]

\* A mousemove handler without the isDragging test.
mousemoveUnguarded(s, e) ==
    LET deltaX == DivInt(e[1] - s.lastMouseX, s.canvasWidth)
        deltaY == DivInt(e[2] - s.lastMouseY, s.canvasHeight)
    IN  render([s EXCEPT
            !.offsetX = Sub(@, Div(Mul(deltaX, Fix(2)), s.zoom)),
            !.offsetY = Add(@, Div(Mul(deltaY, Fix(2)), s.zoom)),
            !.lastMouseX = e[1],
            !.lastMouseY = e[2]])

\* canvas 'mousemove'.
mousemove(s, e) ==
    IF s.isDragging
    THEN LET deltaX == DivInt(e[1] - s.lastMouseX, s.canvasWidth)
             deltaY == DivInt(e[2] - s.lastMouseY, s.canvasHeight)
         IN  render([s EXCEPT
                 !.offsetX = Sub(@, Div(Mul(deltaX, Fix(2)), s.zoom)),
                 !.offsetY = Add(@, Div(Mul(deltaY, Fix(2)), s.zoom)),
                 !.lastMouseX = e[1],
                 !.lastMouseY = e[2]])
    ELSE s

\* document 'mouseup'.
mouseup(s) == [s EXCEPT !.isDragging = FALSE]

\* A wheel handler whose clamp has no upper limit.
wheelNoUpperClamp(s, deltaY) ==
    LET zoomFactor == IF deltaY > 0 THEN ZoomOutFactor ELSE ZoomInFactor
        z == mathMax(ZoomMin, Mul(s.zoom, zoomFactor))
    IN  render([s EXCEPT !.zoom = z,
                         !.zoomSlider = z,
                         !.zoomValue = toFixed(z, Scale, 10)])

\* canvas 'wheel'.
wheel(s, deltaY) ==
    LET zoomFactor == IF deltaY > 0 THEN ZoomOutFactor ELSE ZoomInFactor
        z == mathMax(ZoomMin, mathMin(ZoomMax, Mul(s.zoom, zoomFactor)))
    IN  render([s EXCEPT !.zoom = z,
                         !.zoomSlider = z,
                         !.zoomValue = toFixed(z, Scale, 10)])

\* A resize handler that renders again after resizeCanvas().
resizeThenRender(s, w) == render(resizeCanvas(s, w))

\* window 'resize'.
resize(s, w) == resizeCanvas(s, w)

\* ---------------------------------------------------- fragment shader

\* A uniform2f / uniform1f value of c (units of 1/CScale) as a shader float.
ToShaderFloat(x) == RoundDiv(x * Scale, CScale)

\* dot(z, z).
dot(z) == Mul(z[1], z[1]) + Mul(z[2], z[2])

\* mix(x, y, a) = x * (1 - a) + y * a, one component.
mix1(x, y, a) == IF a = NaN THEN NaN ELSE Mul(x, Scale - a) + Mul(y, a)

\* mix(x, y, a) on vec3.
mix(x, y, a) == <<mix1(x[1], y[1], a), mix1(x[2], y[2], a), mix1(x[3], y[3], a)>>

\* The four anchor colors.
color1 == <<100, 200, 500>>
color2 == <<300, 800, 900>>
color3 == <<1000, 400, 400>>
color4 == <<1000, 1000, 500>>

\* Opaque black.
Black == <<0, 0, 0, 1000>>

\* The shader before main() runs for pixel uv under uniforms u (a View State).
ShaderStart(u, uv) ==
    [pc |-> "main", u |-> u, uv |-> uv,
     c |-> <<0, 0>>, z |-> <<0, 0>>, i |-> 0, iterations |-> 0,
     exit |-> "none",
     gl_FragColor |-> <<0, 0, 0, 0>>]

\* No invocation.
ShaderIdle == [ShaderStart(ZeroUniforms, <<0, 0>>) EXCEPT !.pc = "idle"]

\* main(), up to the loop: the pixel's point of the complex plane.
mapPixel(sh) ==
    LET aspect == DivInt(sh.u.u_resolution[1], sh.u.u_resolution[2])
        zx == Div((sh.uv[1] - 500) * 2, sh.u.u_zoom) + sh.u.u_offset[1]
        zy == Div((sh.uv[2] - 500) * 2, sh.u.u_zoom) + sh.u.u_offset[2]
    IN  [sh EXCEPT !.c = <<ToShaderFloat(sh.u.u_julia_c[1]),
                           ToShaderFloat(sh.u.u_julia_c[2])>>,
                   !.z = <<Mul(zx, aspect), zy>>,
                   !.i = 0, !.iterations = 0, !.pc = "loop"]

\* The for statement's condition, i < 500.
loopCondition(sh) == sh.i < LoopCeiling

\* A budget test that is off by one.
budgetBreakOffByOne(sh) == sh.i > sh.u.u_max_iterations

\* The first break: the iteration budget is used up.
budgetBreak(sh) == sh.i >= sh.u.u_max_iterations

\* The second break: the point has escaped.
escapeBreak(sh) == dot(sh.z) > EscapeRadiusSq

\* One pass of the loop body that reaches iterations++, then i++.
iterate(sh) ==
    LET new_x == Mul(sh.z[1], sh.z[1]) - Mul(sh.z[2], sh.z[2]) + sh.c[1]
        new_y == Mul(Mul(Fix(2), sh.z[1]), sh.z[2]) + sh.c[2]
    IN  [sh EXCEPT !.z = <<new_x, new_y>>,
                   !.iterations = @ + 1,
                   !.i = @ + 1]

\* A coloring that tests the count against the loop's constant bound.
colorPixelCeilingTest(sh) ==
    IF sh.iterations = LoopCeiling
    THEN [sh EXCEPT !.gl_FragColor = Black, !.pc = "done"]
    ELSE LET t == DivInt(sh.iterations, sh.u.u_max_iterations)
             color == IF t < 330 THEN mix(color1, color2, Mul(t, Fix(3)))
                      ELSE IF t < 660 THEN mix(color2, color3, Mul(t - 330, Fix(3)))
                      ELSE mix(color3, color4, Mul(t - 660, Fix(3)))
         IN  [sh EXCEPT !.gl_FragColor = <<color[1], color[2], color[3], 1000>>,
                        !.pc = "done"]

\* The coloring after the loop.
colorPixel(sh) ==
    IF sh.iterations = sh.u.u_max_iterations
    THEN [sh EXCEPT !.gl_FragColor = Black, !.pc = "done"]
    ELSE LET t == DivInt(sh.iterations, sh.u.u_max_iterations)
             color == IF t < 330 THEN mix(color1, color2, Mul(t, Fix(3)))
                      ELSE IF t < 660 THEN mix(color2, color3, Mul(t - 330, Fix(3)))
                      ELSE mix(color3, color4, Mul(t - 660, Fix(3)))
         IN  [sh EXCEPT !.gl_FragColor = <<color[1], color[2], color[3], 1000>>,
                        !.pc = "done"]

\* ------------------------------------------------------ viewer actions

\* What the platform may grant init(): a context or none, shaders that
\* compile or not, a program that links or not.
Platforms == [context : BOOLEAN, compiles : BOOLEAN, links : BOOLEAN]

Windows ==
    { [innerWidth |-> sz[1], innerHeight |-> sz[2], devicePixelRatio |-> r] :
        sz \in WindowSizes, r \in DevicePixelRatios }

\* A handler starts with no draw call issued.
Begin(s) == [s EXCEPT !.draws = <<>>]

\* An event with no preset button.
NoButton == [real |-> <<>>, imag |-> <<>>]

EventOf(kind) == [kind |-> kind, button |-> NoButton]

\* An event reaches its handler only if setupEventListeners() has run.
DispatchEvent(event, handled) ==
    /\ phase # "constructed"
    /\ viewer' = IF viewer.listeners THEN handled ELSE Begin(viewer)
    /\ lastEvent' = event
    /\ UNCHANGED <<phase, shader>>

Dispatch(kind, handled) == DispatchEvent(EventOf(kind), handled)

\* 'DOMContentLoaded': new JuliaSetViewer(), whose constructor ends in init().
DOMContentLoaded(gpu) ==
    /\ phase = "constructed"
    /\ viewer' = init(Begin(viewer), win, gpu)
    /\ phase' = IF viewer'.loadingText = "Loading" THEN "ready" ELSE "failed"
    /\ lastEvent' = EventOf("init")
    /\ UNCHANGED <<win, pressed, shader>>

RealSliderInput(value) ==
    /\ Dispatch("real", realInput(Begin(viewer), value))
    /\ UNCHANGED <<win, pressed>>

ImagSliderInput(value) ==
    /\ Dispatch("imag", imagInput(Begin(viewer), value))
    /\ UNCHANGED <<win, pressed>>

ZoomSliderInput(value) ==
    /\ Dispatch("zoom", zoomInput(Begin(viewer), value))
    /\ UNCHANGED <<win, pressed>>

IterSliderInput(value) ==
    /\ Dispatch("iterations", iterInput(Begin(viewer), value))
    /\ UNCHANGED <<win, pressed>>

PresetClick(button) ==
    /\ DispatchEvent([kind |-> "preset", button |-> button],
                     presetClick(Begin(viewer), button))
    /\ UNCHANGED <<win, pressed>>

MouseDown(e) ==
    /\ Dispatch("mousedown", mousedown(Begin(viewer), e))
    /\ pressed' = TRUE
    /\ UNCHANGED win

MouseMove(e) ==
    /\ Dispatch("mousemove", mousemove(Begin(viewer), e))
    /\ UNCHANGED <<win, pressed>>

MouseUp ==
    /\ Dispatch("mouseup", mouseup(Begin(viewer)))
    /\ pressed' = FALSE
    /\ UNCHANGED win

Wheel(deltaY) ==
    /\ Dispatch("wheel", wheel(Begin(viewer), deltaY))
    /\ UNCHANGED <<win, pressed>>

\* The window takes a new size (or the same one), then 'resize' is delivered.
Resize(w) ==
    /\ win' = w
    /\ Dispatch("resize", resize(Begin(viewer), w))
    /\ UNCHANGED pressed

Init ==
    /\ viewer = constructor
    /\ win \in Windows
    /\ phase = "constructed"
    /\ lastEvent = EventOf("none")
    /\ pressed = FALSE
    /\ events = 0
    /\ shader = ShaderIdle

\* One more event is delivered, within the number explored.
Counted(handler) == events < MaxEvents /\ events' = events + 1 /\ handler

Next ==
    \/ \E gpu \in Platforms : DOMContentLoaded(gpu) /\ UNCHANGED events
    \/ \E value \in RealSliderValues : Counted(RealSliderInput(value))
    \/ \E value \in ImagSliderValues : Counted(ImagSliderInput(value))
    \/ \E value \in ZoomSliderValues : Counted(ZoomSliderInput(value))
    \/ \E value \in IterSliderValues : Counted(IterSliderInput(value))
    \/ \E button \in Presets : Counted(PresetClick(button))
    \/ \E e \in MousePoints : Counted(MouseDown(e))
    \/ \E e \in MousePoints : Counted(MouseMove(e))
    \/ Counted(MouseUp)
    \/ \E deltaY \in WheelDeltas : Counted(Wheel(deltaY))
    \/ \E w \in Windows : Counted(Resize(w))

Spec == Init /\ [][Next]_vars

\* The viewer after a successful init(), driven by wheel events only.
WheelInit ==
    /\ win \in Windows
    /\ viewer = init(constructor, win, [context |-> TRUE, compiles |-> TRUE, links |-> TRUE])
    /\ phase = "ready"
    /\ lastEvent = EventOf("init")
    /\ pressed = FALSE
    /\ events = 0
    /\ shader = ShaderIdle

WheelNext == \E deltaY \in WheelDeltas : Wheel(deltaY) /\ UNCHANGED events

WheelSpec == WheelInit /\ [][WheelNext]_vars

\* ------------------------------------------------------ shader actions

\* Pixels: v_texCoord in units of 1/Scale (the centre, a corner, an edge).
PixelCoords == { <<500, 500>>, <<0, 0>>, <<1000, 500>> }

\* Values of c, zoom and offset among those the viewer can hold.
ShaderCs == { <<0 - 70000, 27015>>, <<0, 0>>, <<0 - 40000, 60000>> }

ShaderZooms == { 100, 1000, 10000 }

ShaderOffsets == { <<0, 0>>, <<2000, 0 - 1000>> }

\* maxIterations as the viewer can hold it: the constructor's 100 and values
\* of the iteration slider.
ViewerIterations == { 10, 100, 500 }

\* u_max_iterations as any caller of the shader could set it.
AnyIterations == { 0, 1, 3, 10, 500, 501, 600 }

UniformsWith(iterations) ==
    { [u_julia_c |-> c, u_zoom |-> z, u_offset |-> o,
       u_max_iterations |-> n, u_resolution |-> <<800, 600>>] :
        c \in ShaderCs, z \in ShaderZooms, o \in ShaderOffsets, n \in iterations }

\* main() begins.
ShaderMain ==
    /\ shader.pc = "main"
    /\ shader' = mapPixel(shader)
    /\ UNCHANGED viewerVars

\* The loop ends because its condition fails.
LoopExit ==
    /\ shader.pc = "loop"
    /\ ~loopCondition(shader)
    /\ shader' = [shader EXCEPT !.pc = "color", !.exit = "condition"]
    /\ UNCHANGED viewerVars

\* if (i >= u_max_iterations) break;
LoopBudgetBreak ==
    /\ shader.pc = "loop"
    /\ loopCondition(shader)
    /\ budgetBreak(shader)
    /\ shader' = [shader EXCEPT !.pc = "color", !.exit = "budget"]
    /\ UNCHANGED viewerVars

\* if (dot(z, z) > 4.0) break;
LoopEscapeBreak ==
    /\ shader.pc = "loop"
    /\ loopCondition(shader)
    /\ ~budgetBreak(shader)
    /\ escapeBreak(shader)
    /\ shader' = [shader EXCEPT !.pc = "color", !.exit = "escape"]
    /\ UNCHANGED viewerVars

\* The rest of the loop body, and i++.
LoopIterate ==
    /\ shader.pc = "loop"
    /\ loopCondition(shader)
    /\ ~budgetBreak(shader)
    /\ ~escapeBreak(shader)
    /\ shader' = iterate(shader)
    /\ UNCHANGED viewerVars

\* The coloring, which ends main().
ShaderColor ==
    /\ shader.pc = "color"
    /\ shader' = colorPixel(shader)
    /\ UNCHANGED viewerVars

ShaderInitWith(iterations) ==
    /\ viewer = constructor
    /\ win = [innerWidth |-> 800, innerHeight |-> 600, devicePixelRatio |-> 1]
    /\ phase = "constructed"
    /\ lastEvent = EventOf("none")
    /\ pressed = FALSE
    /\ events = 0
    /\ shader \in { ShaderStart(u, uv) : u \in UniformsWith(iterations), uv \in PixelCoords }

ShaderNext ==
    \/ ShaderMain
    \/ LoopExit
    \/ LoopBudgetBreak
    \/ LoopEscapeBreak
    \/ LoopIterate
    \/ ShaderColor

\* The GPU runs every invocation it starts to its end.
ShaderFairness == WF_vars(ShaderNext)

\* The shader under uniforms the viewer can upload.
ShaderSpec == ShaderInitWith(ViewerIterations) /\ [][ShaderNext]_vars /\ ShaderFairness

\* The shader under any iteration count.
ShaderAnySpec == ShaderInitWith(AnyIterations) /\ [][ShaderNext]_vars /\ ShaderFairness

\* --------------------------------------------------------------- claims

\* C1.  Under wheel events alone, starting from zoom 1.0, zoom stays within
\* [0.1, 10.0] in every reachable state.
C1_WheelZoomClamped == ZoomMin <= viewer.zoom /\ viewer.zoom <= ZoomMax

\* C1 witness: wheel events have driven zoom down to the lower limit, where
\* one more notch out would leave the range without the clamp.
C1_Witness ==
    /\ lastEvent.kind = "wheel"
    /\ viewer.zoom = ZoomMin
    /\ Mul(viewer.zoom, ZoomOutFactor) < ZoomMin

C3_CountBounded ==
    LET n == shader.iterations
        N == shader.u.u_max_iterations
    IN  /\ 0 <= n /\ n <= N
        /\ n <= LoopCeiling
        /\ shader.i = n
        /\ shader.pc \in {"color", "done"} =>
              \/ shader.exit = "budget" /\ n = N
              \/ shader.exit = "condition" /\ n = LoopCeiling
              \/ shader.exit = "escape" /\ dot(shader.z) > EscapeRadiusSq

\* C3 in every step: the count grows by one exactly with one application of
\* z <- z^2 + c, made only while |z|^2 <= 4 and n < N; otherwise it is kept.
C3_CountStep ==
    IF shader'.iterations # shader.iterations
    THEN /\ shader'.iterations = shader.iterations + 1
         /\ dot(shader.z) <= EscapeRadiusSq
         /\ shader.iterations < shader.u.u_max_iterations
         /\ shader'.z[1] = Mul(shader.z[1], shader.z[1])
                             - Mul(shader.z[2], shader.z[2]) + shader.c[1]
         /\ shader'.z[2] = Mul(Mul(Fix(2), shader.z[1]), shader.z[2]) + shader.c[2]
    ELSE shader.pc = "loop" => shader'.z = shader.z

\* C3.  For every N, c and starting point the escape-time loop terminates
\* with a count n, 0 <= n <= N, after at most 500 iterations; n is the number
\* of applications of z <- z^2 + c made before |z|^2 > 4 was observed or the
\* bound was reached.
C3_EscapeTimeBounded ==
    /\ []C3_CountBounded
    /\ [][C3_CountStep]_vars
    /\ <>(shader.pc = "done")

\* C3 witness: a point that never escapes, under a budget above the ceiling,
\* ends with a count of 500.
C3_Witness ==
    /\ shader.pc = "done"
    /\ shader.u.u_max_iterations > LoopCeiling
    /\ shader.iterations = LoopCeiling
    /\ dot(shader.z) <= EscapeRadiusSq

\* C4.  For every pixel the viewer draws: a count equal to maxIterations is
\* colored black (0,0,0,1); a count of 0 is colored with the first anchor
\* color (0.1, 0.2, 0.5) and alpha 1; and a point that did not escape within
\* the budget is never given a gradient color.
C4_ColoringBoundary ==
    shader.pc = "done" =>
        /\ shader.iterations = shader.u.u_max_iterations
              => shader.gl_FragColor = <<0, 0, 0, 1000>>
        /\ shader.iterations = 0
              => shader.gl_FragColor = <<100, 200, 500, 1000>>
        /\ shader.exit # "escape" => shader.gl_FragColor = <<0, 0, 0, 1000>>
        /\ shader.gl_FragColor[4] = 1000

\* C4 witness: a point that never escapes under the largest budget of the
\* slider, where the loop ends by its constant bound, is black.
C4_Witness ==
    /\ shader.pc = "done"
    /\ shader.exit = "condition"
    /\ shader.u.u_max_iterations = IterMax
    /\ shader.gl_FragColor = <<0, 0, 0, 1000>>

\* The handler of the event just delivered ran on a viewer that init() had
\* set up.
Handled(kind) == phase = "ready" /\ events' # events /\ lastEvent'.kind = kind

\* The fields of View State other than the canvas size.
Parameters(s) ==
    <<s.juliaReal, s.juliaImag, s.zoom, s.offsetX, s.offsetY, s.maxIterations>>

\* The handler just run has issued exactly one draw call, with the View State
\* it leaves behind.
OneDrawOfNewState ==
    /\ Len(viewer'.draws) = 1
    /\ viewer'.draws[1] = ViewState(viewer')
    /\ viewer'.frame = [drawn |-> TRUE, uniforms |-> ViewState(viewer'),
                        viewport |-> <<viewer'.canvasWidth, viewer'.canvasHeight>>]

\* C5.  After a successful init(), every event that changes a View State
\* parameter (the four sliders, a preset click, wheel, mousemove during a
\* drag, window resize) issues exactly one draw call, inside its handler and
\* after the state change.
C5_OneDrawPerChange ==
    [][ (\/ \E kind \in {"real", "imag", "zoom", "iterations", "preset",
                         "wheel", "resize"} : Handled(kind)
         \/ Handled("mousemove") /\ viewer.isDragging)
        => OneDrawOfNewState ]_vars

\* C5 witness: a mousemove during a drag has moved the offset and drawn once.
C5_Witness ==
    /\ phase = "ready"
    /\ lastEvent.kind = "mousemove"
    /\ viewer.offsetX # 0
    /\ Len(viewer.draws) = 1
    /\ viewer.draws[1].u_offset = <<viewer.offsetX, viewer.offsetY>>

\* The value of c each preset button's literals denote, in units of 1/CScale.
C6_Literals ==
    { [button |-> [real |-> <<"-", "0", ".", "4">>, imag |-> <<"0", ".", "6">>],
       c |-> <<0 - 40000, 60000>>],
      [button |-> [real |-> <<"0", ".", "2", "8", "5">>, imag |-> <<"0", ".", "0", "1">>],
       c |-> <<28500, 1000>>] }

\* C6.  A click on a preset button with literals (r, i) sets c = (r, i)
\* whatever c was, leaves zoom, offset and maxIterations unchanged and
\* triggers exactly one render.
C6_PresetSetsC ==
    [][ Handled("preset") =>
          /\ \E l \in C6_Literals :
                /\ l.button = lastEvent'.button
                /\ <<viewer'.juliaReal, viewer'.juliaImag>> = l.c
          /\ viewer'.zoom = viewer.zoom
          /\ viewer'.offsetX = viewer.offsetX /\ viewer'.offsetY = viewer.offsetY
          /\ viewer'.maxIterations = viewer.maxIterations
          /\ OneDrawOfNewState ]_vars

\* C6 witness: the preset (-0.4, 0.6) was clicked when c, zoom and
\* maxIterations had been moved off their initial values.
C6_Witness ==
    /\ phase = "ready"
    /\ lastEvent.kind = "preset"
    /\ lastEvent.button.real = <<"-", "0", ".", "4">>
    /\ <<viewer.juliaReal, viewer.juliaImag>> = <<0 - 40000, 60000>>
    /\ viewer.zoom # 1000
    /\ viewer.maxIterations # 100
    /\ Len(viewer.draws) = 1

\* C7 in every state after a failed init(): the error message is shown, no
\* listener is registered, no draw call is issued and nothing was ever drawn.
C7_Inert ==
    phase = "failed" =>
        /\ viewer.loadingShown
        /\ viewer.loadingText \in {"WebGL not supported",
                                   "An error occurred compiling the shaders",
                                   "Unable to initialize shader program"}
        /\ ~viewer.listeners
        /\ viewer.draws = <<>>
        /\ ~viewer.frame.drawn
        /\ viewer.uniforms = ZeroUniforms

\* C7.  If init() fails, the error is shown and the system is inert from then
\* on: no later event draws, and init() is not run again.
C7_FailureIsFinal ==
    /\ []C7_Inert
    /\ [][phase = "failed" => phase' = "failed" /\ viewer' = viewer]_vars

\* C7 witness: the program failed to link (the context exists), and events
\* have been delivered since.
C7_Witness ==
    /\ phase = "failed"
    /\ viewer.gl
    /\ viewer.program = "unlinked"
    /\ events >= 2
    /\ lastEvent.kind = "wheel"

\* C8.  render() is idempotent and a function of View State: it changes no
\* field of the viewer other than the GL state it uploads and the frame, every
\* draw call uploads uniforms equal to the current View State, and a second
\* render() of an unchanged View State leaves the same frame as the first,
\* whatever was drawn before.
C8_RenderPure ==
    phase = "ready" =>
        LET once == render(viewer)
            twice == render(once)
            gl == {"viewport", "uniforms", "frame", "draws"}
        IN  /\ \A f \in (DOMAIN viewer) \ gl : once[f] = viewer[f]
            /\ ViewState(once) = ViewState(viewer)
            /\ once.uniforms = ViewState(viewer)
            /\ once.frame = [drawn |-> TRUE, uniforms |-> ViewState(viewer),
                             viewport |-> <<viewer.canvasWidth, viewer.canvasHeight>>]
            /\ twice.frame = once.frame
            /\ twice.uniforms = once.uniforms
            /\ ViewState(twice) = ViewState(viewer)
            /\ viewer.uniforms = ViewState(viewer)
            /\ viewer.frame = once.frame
            /\ \A k \in 1..Len(viewer.draws) : viewer.draws[k] = ViewState(viewer)

\* C8 witness: a frame drawn from a View State in which c, zoom and offset
\* all differ from their first values.
C8_Witness ==
    /\ phase = "ready"
    /\ viewer.frame.drawn
    /\ viewer.juliaReal # 0 - 70000
    /\ viewer.zoom # 1000
    /\ viewer.offsetX # 0
    /\ viewer.frame.uniforms.u_zoom = viewer.zoom
    /\ viewer.frame.uniforms.u_offset = <<viewer.offsetX, viewer.offsetY>>

\* The device pixel ratio resizeCanvas() uses: 1 when the window gives none.
C9_Ratio == IF win'.devicePixelRatio = 0 THEN 1 ELSE win'.devicePixelRatio

\* C9.  A resize sets the canvas backing resolution to (CSS width x device
\* pixel ratio, CSS height x device pixel ratio), sets the GPU viewport to
\* that size and renders once, leaving c, zoom, offset and maxIterations
\* unchanged; at ratio 1 a window twice as wide and high doubles the backing
\* resolution in both axes.  The resize at the start of init(), before the
\* context exists, sets the size and draws nothing.
C9_ResizeSetsResolution ==
    [][ /\ Handled("resize") =>
            /\ viewer'.canvasWidth = win'.innerWidth * C9_Ratio
            /\ viewer'.canvasHeight = win'.innerHeight * C9_Ratio
            /\ viewer'.styleWidth = win'.innerWidth
            /\ viewer'.styleHeight = win'.innerHeight
            /\ viewer'.viewport = <<viewer'.canvasWidth, viewer'.canvasHeight>>
            /\ Parameters(viewer') = Parameters(viewer)
            /\ OneDrawOfNewState
            /\ ( /\ win.devicePixelRatio = 1 /\ win'.devicePixelRatio = 1
                 /\ win'.innerWidth = 2 * win.innerWidth
                 /\ win'.innerHeight = 2 * win.innerHeight )
               => /\ viewer'.canvasWidth = 2 * viewer.canvasWidth
                  /\ viewer'.canvasHeight = 2 * viewer.canvasHeight
        /\ (phase = "constructed" /\ phase' # "constructed") =>
            /\ viewer'.canvasWidth = win'.innerWidth * C9_Ratio
            /\ viewer'.canvasHeight = win'.innerHeight * C9_Ratio
            /\ Parameters(viewer') = Parameters(viewer)
            /\ phase' = "failed" => viewer'.draws = <<>>
            /\ phase' = "ready" => Len(viewer'.draws) = 1 ]_vars

\* C9 witness: a window of 1600x1200 at ratio 1 after a resize, drawn at that
\* resolution with parameters that events had changed before.
C9_Witness ==
    /\ phase = "ready"
    /\ lastEvent.kind = "resize"
    /\ win = [innerWidth |-> 1600, innerHeight |-> 1200, devicePixelRatio |-> 1]
    /\ viewer.canvasWidth = 1600 /\ viewer.canvasHeight = 1200
    /\ viewer.viewport = <<1600, 1200>>
    /\ viewer.zoom # 1000
    /\ Len(viewer.draws) = 1

\* C10 in every state of a viewer that init() set up: isDragging says that a
\* mousedown was delivered and no mouseup since.
C10_DraggingIsPressed == phase = "ready" => viewer.isDragging = pressed

\* C10.  A mousemove changes offset and draws only if a mousedown occurred
\* with no mouseup since; any other mousemove leaves every field unchanged
\* and draws nothing; mousedown and mouseup never change c, zoom, offset or
\* maxIterations and never draw.
C10_PanOnlyWhileDragging ==
    /\ []C10_DraggingIsPressed
    /\ [][ /\ (Handled("mousemove") /\ pressed) =>
               /\ OneDrawOfNewState
               /\ \A f \in {"juliaReal", "juliaImag", "zoom", "maxIterations",
                            "canvasWidth", "canvasHeight", "isDragging"} :
                     viewer'[f] = viewer[f]
           /\ (Handled("mousemove") /\ ~pressed) => viewer' = Begin(viewer)
           /\ (Handled("mousedown") \/ Handled("mouseup")) =>
               /\ ViewState(viewer') = ViewState(viewer)
               /\ viewer'.draws = <<>>
               /\ viewer'.frame = viewer.frame
               /\ viewer'.uniforms = viewer.uniforms ]_vars

\* C10 witness: after a drag that moved the offset and a mouseup, a mousemove
\* was delivered, and it drew nothing.
C10_Witness ==
    /\ phase = "ready"
    /\ lastEvent.kind = "mousemove"
    /\ ~pressed
    /\ viewer.offsetX # 0
    /\ viewer.draws = <<>>

=============================================================================
